---- MODULE Spec2Model ----
(***************************************************************************)
(* Block-level page I/O of the btree: __wt_disk_read and __wt_disk_write   *)
(* of src/btree/bt_rw.c.                                                   *)
(*                                                                         *)
(* Memory is modelled byte by byte: a WT_BUF is [mem, size] where mem is   *)
(* the sequence of bytes of the buffer's memory (Len(mem) is its capacity, *)
(* WT_BUF.memsize) and size is the logical length (WT_BUF.size).  The      *)
(* WT_PAGE_DISK header is the first COMPRESS_SKIP bytes of an image; its   *)
(* fields are stored little-endian at fixed offsets.  The file is a map    *)
(* from block address to the bytes stored there.                           *)
(*                                                                         *)
(* Every call is a sequence of steps (pc); one step is one statement, or   *)
(* one straight-line group of statements, of the source.                   *)
(***************************************************************************)
EXTENDS Integers, Sequences, FiniteSets, TLC

(***************************************************************************)
(* Program constants and bounds of the model.                              *)
(***************************************************************************)

\* #define COMPRESS_SKIP 32
COMPRESS_SKIP == 32

\* btree->allocsize: the allocation unit of the file (a power of two).
allocsize == 64

\* uint32_t arithmetic wraps; the modulus is scaled to 2^30 so that it stays
\* within the model checker's integers.  Every size of the model is below
\* 2^10, so a wrapped difference is still larger than any buffer.
UWrap == 2^30

\* Number of __wt_disk_write calls in a behaviour.
MaxWrites == 2

\* Number of __wt_disk_read calls in a behaviour.
MaxReads == 1

\* Number of __wt_disk_write calls in a behaviour that follows the lsn only.
MaxLsnWrites == 3

\* Number of __wt_disk_write calls in a behaviour of concurrent sessions.
MaxConcWrites == 2

\* A bit of the file is corrupted only while at most this many writes were made.
MaxCorruptWrites == 1

\* The sessions (threads of control) that may be inside a call.
Sessions == {1, 2}

\* Content of memory nobody has written yet (stale heap): the byte 0xAA.
Stale == 10 * 16 + 10

\* Names of the return values.  "0" is success.
OK == "0"

\* A WT_BUF: its memory, its logical length; null is TRUE for a NULL pointer.
MkBuf(m, n) == [mem |-> m, size |-> n, null |-> FALSE]

NoBuf == [mem |-> << >>, size |-> 0, null |-> TRUE]

(***************************************************************************)
(* Bytes and header fields.                                                *)
(***************************************************************************)

\* WT_ALIGN(n, v): n rounded up to a multiple of v.
WT_ALIGN(n, v) == ((n + (v - 1)) \div v) * v

\* a - b in uint32_t.
USub(a, b) == (a - b + UWrap) % UWrap

\* Offsets of the WT_PAGE_DISK fields within the header.
OFF_CHECKSUM == 0
OFF_SIZE == 4
OFF_MEMSIZE == 8
OFF_LSN == 12
OFF_TYPE == 20

LE32(v) == << v % 256, (v \div 256) % 256, (v \div 65536) % 256, (v \div 16777216) % 256 >>

LE64(v) == LE32(v) \o <<0, 0, 0, 0>>

\* The element of a set of one element.  Only({e(x) : x \in {v}}) is e(v),
\* with v computed once however often e uses it.
Only(S) == CHOOSE x \in S : TRUE

\* The bytes n of m starting at offset off (offsets count from 0).
Bytes(m, off, n) == Only({ [i \in 1..n |-> mm[off + i]] : mm \in {m} })

\* m with the bytes b stored at offset off.
Put(m, off, b) ==
    Only({ [i \in 1..Len(mm) |-> IF i > off /\ i <= off + Len(bb) THEN bb[i - off] ELSE mm[i]] :
               mm \in {m}, bb \in {b} })

\* The uint32_t field at offset off (defined while its top bit is clear).
Get32(m, off) == m[off + 1] + 256 * m[off + 2] + 65536 * m[off + 3] + 16777216 * m[off + 4]

\* memset(m + off, c, n)
memset(m, off, c, n) ==
    Only({ [i \in 1..Len(mm) |-> IF i > off /\ i <= off + n THEN c ELSE mm[i]] : mm \in {m} })

\* memcpy(dst, src, n)
memcpy(dst, src, n) ==
    Only({ [i \in 1..Len(d) |-> IF i <= n THEN s[i] ELSE d[i]] : d \in {dst}, s \in {src} })

\* The sum of the bytes m[lo..hi].
RECURSIVE SumBytes(_, _, _)
SumBytes(m, lo, hi) ==
    IF lo > hi THEN 0
    ELSE IF lo = hi THEN m[lo]
    ELSE Only({ SumBytes(m, l, mid) + SumBytes(m, mid + 1, h) :
                    l \in {lo}, h \in {hi}, mid \in {(lo + hi) \div 2} })

\* __wt_cksum(m, n): the checksum of the first n bytes of m, as the four bytes
\* of a uint32_t.
__wt_cksum(m, n) == LE32(SumBytes(m, 1, n))

(***************************************************************************)
(* The compressor: a run-length codec.  The compressed form is a sequence  *)
(* of (count, byte) pairs, count in 1..255; a count of 0 ends the stream,  *)
(* so the zero padding of a block is not part of the compressed data.      *)
(***************************************************************************)

\* Two encoded pieces joined: the last run of a and the first run of b are
\* one run when they are runs of the same byte (and the count fits a byte).
RleJoin(a, b) ==
    IF Len(a) = 0 THEN b
    ELSE IF Len(b) = 0 THEN a
    ELSE IF a[Len(a)] = b[2] /\ a[Len(a) - 1] + b[1] <= 255
         THEN SubSeq(a, 1, Len(a) - 2) \o << a[Len(a) - 1] + b[1], b[2] >>
                  \o SubSeq(b, 3, Len(b))
         ELSE a \o b

RECURSIVE RleRange(_, _, _)
RleRange(s, lo, hi) ==
    IF lo > hi THEN << >>
    ELSE IF lo = hi THEN << 1, s[lo] >>
    ELSE Only({ Only({ RleJoin(a, b) : a \in {RleRange(s, l, mid)},
                                        b \in {RleRange(s, mid + 1, h)} }) :
                    l \in {lo}, h \in {hi}, mid \in {(lo + hi) \div 2} })

RleEncode(s) == RleRange(s, 1, Len(s))

\* The pairs of c the decoder reads: those before the first count of 0.
RlePairs(c) ==
    LET P == Len(c) \div 2
        Z == {j \in 1..P : c[2 * j - 1] = 0}
    IN  IF Z = {} THEN P ELSE (CHOOSE j \in Z : \A k \in Z : j <= k) - 1

RECURSIVE RleExpand(_, _, _)
RleExpand(c, lo, hi) ==
    IF lo > hi THEN << >>
    ELSE IF lo = hi THEN [j \in 1..c[2 * lo - 1] |-> c[2 * lo]]
    ELSE Only({ RleExpand(c, l, mid) \o RleExpand(c, mid + 1, h) :
                    l \in {lo}, h \in {hi}, mid \in {(lo + hi) \div 2} })

RleDecode(c) == RleExpand(c, 1, RlePairs(c))

\* Whether the decoder meets the end-of-stream mark within c.
RleEnds(c) == \E i \in 1..Len(c) : i % 2 = 1 /\ c[i] = 0

(***************************************************************************)
(* The codec behind btree->compressor.  compressor is "none" (NULL), "rle" *)
(* or "fail" (a codec whose compress always fails).                        *)
(***************************************************************************)

\* compress(src, dst): dst.size on entry is the room at dst.data.  Returns
\* [ret, data]: on success data is what was stored at dst.data and dst.size
\* is set to its length.
Compress(kind, src, room) ==
    IF kind = "rle" /\ Len(RleEncode(src)) <= room
    THEN [ret |-> OK, data |-> RleEncode(src)]
    ELSE [ret |-> "CODEC_ERROR", data |-> << >>]

\* decompress(src, dst): srcsize and room are src.size and dst.size as the
\* caller set them, avail is the memory that really is at src.data and cap
\* the memory that really is at dst.data.  Returns the set of possible
\* results [ret, data]: reading past the end of the source memory is
\* undefined, so the call may then fail or go on with what it has decoded.
Decompress(avail, srcsize, room, cap) ==
    LET n   == IF srcsize < Len(avail) THEN srcsize ELSE Len(avail)
        inp == SubSeq(avail, 1, n)
        dec == RleDecode(inp)
        fit == Len(dec) <= room /\ Len(dec) <= cap
        oob == srcsize > Len(avail) /\ ~RleEnds(inp)
    IN  IF ~fit THEN {[ret |-> "CODEC_ERROR", data |-> << >>]}
        ELSE IF oob THEN {[ret |-> OK, data |-> dec], [ret |-> "CODEC_ERROR", data |-> << >>]}
        ELSE {[ret |-> OK, data |-> dec]}

(***************************************************************************)
(* Page images handed to __wt_disk_write.  A page is [size, run, type]:    *)
(* size is the length of the image (WT_BUF.size), the payload after the    *)
(* header is made of runs of `run` equal bytes, alternately 1 and 2.       *)
(***************************************************************************)

Pages ==
    { [size |-> 40,  run |-> 3,  type |-> 1],
      [size |-> 112, run |-> 5,  type |-> 2],
      [size |-> 128, run |-> 2,  type |-> 3],
      [size |-> 100, run |-> 1,  type |-> 4],
      [size |-> 150, run |-> 4,  type |-> 5] }

PayloadByte(p, i) == 1 + (((i - 1) \div p.run) % 2)

\* The caller's buffer: the image, then slack up to the next allocation
\* unit, which holds whatever was there before.
PageBuf(p) ==
    MkBuf([i \in 1..WT_ALIGN(p.size, allocsize) |->
              IF i = OFF_TYPE + 1 THEN p.type
              ELSE IF i <= OFF_TYPE THEN Stale
              ELSE IF i <= COMPRESS_SKIP THEN 0
              ELSE IF i <= p.size THEN PayloadByte(p, i - COMPRESS_SKIP)
              ELSE Stale],
          p.size)

\* The payload of a page image: its bytes after the header.
Payload(p) == [i \in 1..(p.size - COMPRESS_SKIP) |-> PayloadByte(p, i)]

(***************************************************************************)
(* State.                                                                  *)
(***************************************************************************)
VARIABLES
    compressor,   \* btree->compressor: "none", "rle" or "fail"
    lsn,          \* btree->lsn
    file,         \* btree->fh: block address -> bytes stored there
    next_addr,    \* the block allocator: the next free address
    stats,        \* page_read, block_read, page_write, block_write
    pc,           \* per session: where it is in its call
    buf,          \* per session: the caller's WT_BUF
    tmp,          \* per session: the scratch buffer, or NoBuf
    loc,          \* per session: arguments and locals of the call
    out,          \* per session: *addrp and *sizep of the caller
    pre,          \* per session: the state when the call was made
    wlog,         \* the successful writes, in the order they returned
    nwrites,      \* calls of __wt_disk_write made
    nreads,       \* calls of __wt_disk_read made
    flipped       \* the bit of the file that was corrupted, if any

vars == << compressor, lsn, file, next_addr, stats, pc, buf, tmp, loc, out,
           pre, wlog, nwrites, nreads, flipped >>

NoAddr == 0 - 1

\* No page: what a session that is in no call has for its page.
NoPage == [size |-> 0, run |-> 1, type |-> 0]

NoStats == [page_read |-> 0, block_read |-> 0, page_write |-> 0, block_write |-> 0]

LocInit ==
    [ ret |-> OK, align_size |-> 0, size |-> 0, dsk |-> "buf", addr |-> NoAddr,
      dst_size |-> 0, raddr |-> NoAddr, rsize |-> 0, checksum |-> << >>,
      page |-> NoPage, scr |-> 0, cret |-> "", asize |-> 0, wsize |-> 0 ]

PreInit == [ buf |-> NoBuf, file |-> << >>, lsn |-> 0, stats |-> NoStats ]

NoFlip == [ addr |-> NoAddr, byte |-> 0, bit |-> 0 ]

Init ==
    /\ compressor \in {"none", "rle", "fail"}
    /\ lsn = 0
    /\ file = << >>
    /\ next_addr = 1
    /\ stats = NoStats
    /\ pc = [s \in Sessions |-> "idle"]
    /\ buf = [s \in Sessions |-> NoBuf]
    /\ tmp = [s \in Sessions |-> NoBuf]
    /\ loc = [s \in Sessions |-> LocInit]
    /\ out = [s \in Sessions |-> [addrp |-> NoAddr, sizep |-> 0]]
    /\ pre = [s \in Sessions |-> PreInit]
    /\ wlog = << >>
    /\ nwrites = 0
    /\ nreads = 0
    /\ flipped = NoFlip

\* dsk: the image the header stores go to.
Dsk(s) == IF loc[s].dsk = "tmp" THEN tmp[s] ELSE buf[s]

\* __wt_scr_alloc(session, size, &tmp): the buffers it may hand out.  The
\* memory is at least `size` bytes of stale content; the logical length of a
\* buffer just acquired is 0 or the size asked for.
ScrAlloc(size) ==
    { MkBuf([i \in 1..size |-> Stale], n) : n \in {0, size} }

(***************************************************************************)
(* __wt_disk_write                                                         *)
(***************************************************************************)

\* dsk->size = dsk->memsize = n, stored in the header of the image m.
SetSizes(m, n) == Put(Put(m, OFF_SIZE, LE32(n)), OFF_MEMSIZE, LE32(n))

\* The call: the caller hands in a page image.
WriteCall(s, p) ==
    /\ pc[s] = "idle"
    /\ nwrites' = nwrites + 1
    /\ buf' = [buf EXCEPT ![s] = PageBuf(p)]
    /\ tmp' = [tmp EXCEPT ![s] = NoBuf]
    /\ loc' = [loc EXCEPT ![s] = [LocInit EXCEPT !.page = p]]
    /\ pre' = [pre EXCEPT ![s] = [buf |-> PageBuf(p), file |-> file, lsn |-> lsn, stats |-> stats]]
    /\ pc' = [pc EXCEPT ![s] = "w_validate"]
    /\ UNCHANGED << compressor, lsn, file, next_addr, stats, out, wlog, nreads, flipped >>

\* align_size is the size of the image, not rounded up.
WValidate_NoAlign(s) ==
    /\ pc[s] = "w_validate"
    /\ buf' = [buf EXCEPT ![s].mem = SetSizes(@, buf[s].size)]
    /\ loc' = [loc EXCEPT ![s].align_size = buf[s].size]
    /\ pc' = [pc EXCEPT ![s] = "w_decide"]
    /\ UNCHANGED << compressor, lsn, file, next_addr, stats, tmp, out, pre, wlog,
                    nwrites, nreads, flipped >>

\* dsk->size = dsk->memsize = buf->size;
\* align_size = WT_ALIGN(buf->size, btree->allocsize);
WValidate(s) ==
    /\ pc[s] = "w_validate"
    /\ buf' = [buf EXCEPT ![s].mem = SetSizes(@, buf[s].size)]
    /\ loc' = [loc EXCEPT ![s].align_size = WT_ALIGN(buf[s].size, allocsize)]
    /\ pc' = [pc EXCEPT ![s] = "w_decide"]
    /\ UNCHANGED << compressor, lsn, file, next_addr, stats, tmp, out, pre, wlog,
                    nwrites, nreads, flipped >>

\* if (btree->compressor == NULL || align_size == btree->allocsize)
SkipCompression(s) == compressor = "none" \/ loc[s].align_size = allocsize

\* Without compression the image goes to the allocator as it is.
WDecide_SkipPrep(s) ==
    /\ pc[s] = "w_decide"
    /\ pc' = [pc EXCEPT ![s] = IF SkipCompression(s) THEN "w_alloc" ELSE "w_scr"]
    /\ UNCHANGED << compressor, lsn, file, next_addr, stats, buf, tmp, loc, out, pre,
                    wlog, nwrites, nreads, flipped >>

WDecide(s) ==
    /\ pc[s] = "w_decide"
    /\ pc' = [pc EXCEPT ![s] = IF SkipCompression(s) THEN "w_prep" ELSE "w_scr"]
    /\ UNCHANGED << compressor, lsn, file, next_addr, stats, buf, tmp, loc, out, pre,
                    wlog, nwrites, nreads, flipped >>

\* The unused bytes at the end of the image are left as they are.
UncompressedPrep_NoZero(b, align_size) ==
    [b EXCEPT !.mem = SetSizes(@, align_size), !.size = align_size]

\* not_compressed: zero the unused bytes at the end, set buf->size and both
\* header sizes to align_size.
UncompressedPrep(b, align_size) ==
    [b EXCEPT !.mem = SetSizes(memset(@, b.size, 0, align_size - b.size), align_size),
              !.size = align_size]

WPrep(s) ==
    /\ pc[s] = "w_prep"
    /\ buf' = [buf EXCEPT ![s] = UncompressedPrep(@, loc[s].align_size)]
    /\ loc' = [loc EXCEPT ![s].dsk = "buf"]
    /\ pc' = [pc EXCEPT ![s] = "w_alloc"]
    /\ UNCHANGED << compressor, lsn, file, next_addr, stats, tmp, out, pre, wlog,
                    nwrites, nreads, flipped >>

\* WT_RET(__wt_scr_alloc(session, buf->size, &tmp));
WScrAlloc(s) ==
    /\ pc[s] = "w_scr"
    /\ \/ /\ \E t \in ScrAlloc(buf[s].size) : tmp' = [tmp EXCEPT ![s] = t]
          /\ loc' = [loc EXCEPT ![s].scr = @ + 1]
          /\ pc' = [pc EXCEPT ![s] = "w_compress"]
       \/ /\ loc' = [loc EXCEPT ![s].ret = "ENOMEM"]
          /\ pc' = [pc EXCEPT ![s] = "w_ret"]
          /\ tmp' = tmp
    /\ UNCHANGED << compressor, lsn, file, next_addr, stats, buf, out, pre, wlog,
                    nwrites, nreads, flipped >>

\* A failure of compress is taken for a failure of the write.
WCompress_Fatal(s) ==
    /\ pc[s] = "w_compress"
    /\ LET n == USub(buf[s].size, COMPRESS_SKIP)
           r == Compress(compressor, Bytes(buf[s].mem, COMPRESS_SKIP, n), n)
       IN  /\ tmp' = [tmp EXCEPT ![s].mem = Put(@, COMPRESS_SKIP, r.data)]
           /\ loc' = [loc EXCEPT ![s].ret = r.ret, ![s].dst_size = Len(r.data),
                                 ![s].cret = r.ret]
           /\ pc' = [pc EXCEPT ![s] = IF r.ret # OK THEN "w_err" ELSE "w_adopt"]
    /\ UNCHANGED << compressor, lsn, file, next_addr, stats, buf, out, pre, wlog,
                    nwrites, nreads, flipped >>

\* compress is given the image itself as its destination.
WCompress_InPlace(s) ==
    /\ pc[s] = "w_compress"
    /\ LET n == USub(buf[s].size, COMPRESS_SKIP)
           r == Compress(compressor, Bytes(buf[s].mem, COMPRESS_SKIP, n), n)
       IN  /\ buf' = [buf EXCEPT ![s].mem = Put(@, COMPRESS_SKIP, r.data)]
           /\ tmp' = [tmp EXCEPT ![s].mem = Put(@, COMPRESS_SKIP, r.data)]
           /\ loc' = [loc EXCEPT ![s].ret = r.ret, ![s].dst_size = Len(r.data),
                                 ![s].cret = r.ret]
           /\ pc' = [pc EXCEPT ![s] = IF r.ret # OK THEN "w_prep" ELSE "w_adopt"]
    /\ UNCHANGED << compressor, lsn, file, next_addr, stats, out, pre, wlog,
                    nwrites, nreads, flipped >>

\* src is the image after its first COMPRESS_SKIP bytes, dst the scratch
\* memory after its first COMPRESS_SKIP bytes, both of buf->size - COMPRESS_SKIP.
\* if ((ret = compress(...)) != 0) goto not_compressed;
WCompress(s) ==
    /\ pc[s] = "w_compress"
    /\ LET n == USub(buf[s].size, COMPRESS_SKIP)
           r == Compress(compressor, Bytes(buf[s].mem, COMPRESS_SKIP, n), n)
       IN  /\ tmp' = [tmp EXCEPT ![s].mem = Put(@, COMPRESS_SKIP, r.data)]
           /\ loc' = [loc EXCEPT ![s].ret = r.ret, ![s].dst_size = Len(r.data),
                                 ![s].cret = r.ret]
           /\ pc' = [pc EXCEPT ![s] = IF r.ret # OK THEN "w_prep" ELSE "w_adopt"]
    /\ UNCHANGED << compressor, lsn, file, next_addr, stats, buf, out, pre, wlog,
                    nwrites, nreads, flipped >>

\* The compressed form is given up only when it is larger.
NotUseful_Larger(size, align_size) == size > align_size

\* if (size >= align_size) goto not_compressed;
NotUseful(size, align_size) == size >= align_size

\* Both header sizes of the compressed image are set to align_size.
Adopt_BothSizes(t, b, align_size) ==
    [t EXCEPT !.mem = SetSizes(memset(memcpy(@, b.mem, COMPRESS_SKIP),
                                      t.size, 0, align_size - t.size),
                               align_size)]

\* The compressed image: the first COMPRESS_SKIP bytes of the original, the
\* compressed bytes, zeroes up to align_size, and dsk->size = align_size.
Adopt(t, b, align_size) ==
    [t EXCEPT !.mem = Put(memset(memcpy(@, b.mem, COMPRESS_SKIP),
                                 t.size, 0, align_size - t.size),
                          OFF_SIZE, LE32(align_size))]

\* tmp->size = dst.size + COMPRESS_SKIP;
\* size = WT_ALIGN(tmp->size, btree->allocsize);
WAdopt(s) ==
    /\ pc[s] = "w_adopt"
    /\ LET tsize == loc[s].dst_size + COMPRESS_SKIP
           size  == WT_ALIGN(tsize, allocsize)
           t     == [tmp[s] EXCEPT !.size = tsize]
       IN  IF NotUseful(size, loc[s].align_size)
           THEN /\ tmp' = [tmp EXCEPT ![s] = t]
                /\ loc' = [loc EXCEPT ![s].size = size]
                /\ pc' = [pc EXCEPT ![s] = "w_prep"]
           ELSE /\ tmp' = [tmp EXCEPT ![s] = Adopt(t, buf[s], size)]
                /\ loc' = [loc EXCEPT ![s].size = size, ![s].align_size = size,
                                      ![s].dsk = "tmp"]
                /\ pc' = [pc EXCEPT ![s] = "w_alloc"]
    /\ UNCHANGED << compressor, lsn, file, next_addr, stats, buf, out, pre, wlog,
                    nwrites, nreads, flipped >>

\* A failed allocation returns at once, without going through err.
WAlloc_NoCleanup(s) ==
    /\ pc[s] = "w_alloc"
    /\ \/ /\ loc' = [loc EXCEPT ![s].ret = OK, ![s].addr = next_addr,
                                ![s].asize = loc[s].align_size]
          /\ next_addr' = next_addr + (loc[s].align_size \div allocsize)
          /\ pc' = [pc EXCEPT ![s] = "w_lsn_incr"]
       \/ /\ loc' = [loc EXCEPT ![s].ret = "ENOSPC", ![s].asize = loc[s].align_size]
          /\ next_addr' = next_addr
          /\ pc' = [pc EXCEPT ![s] = "w_ret"]
    /\ UNCHANGED << compressor, lsn, file, stats, buf, tmp, out, pre, wlog,
                    nwrites, nreads, flipped >>

\* The lsn is taken before the allocator is called, so that a failed
\* allocation has consumed a value.
WAlloc_ConsumesLsn(s) ==
    /\ pc[s] = "w_alloc"
    /\ \/ /\ loc' = [loc EXCEPT ![s].ret = OK, ![s].addr = next_addr,
                                ![s].asize = loc[s].align_size]
          /\ next_addr' = next_addr + (loc[s].align_size \div allocsize)
          /\ lsn' = lsn
          /\ pc' = [pc EXCEPT ![s] = "w_lsn_incr"]
       \/ /\ loc' = [loc EXCEPT ![s].ret = "ENOSPC", ![s].asize = loc[s].align_size]
          /\ next_addr' = next_addr
          /\ lsn' = lsn + 1
          /\ pc' = [pc EXCEPT ![s] = "w_err"]
    /\ UNCHANGED << compressor, file, stats, buf, tmp, out, pre, wlog,
                    nwrites, nreads, flipped >>

\* WT_ERR(__wt_block_alloc(session, &addr, align_size));
WAlloc(s) ==
    /\ pc[s] = "w_alloc"
    /\ \/ /\ loc' = [loc EXCEPT ![s].ret = OK, ![s].addr = next_addr,
                                ![s].asize = loc[s].align_size]
          /\ next_addr' = next_addr + (loc[s].align_size \div allocsize)
          /\ pc' = [pc EXCEPT ![s] = "w_lsn_incr"]
       \/ /\ loc' = [loc EXCEPT ![s].ret = "ENOSPC", ![s].asize = loc[s].align_size]
          /\ next_addr' = next_addr
          /\ pc' = [pc EXCEPT ![s] = "w_err"]
    /\ UNCHANGED << compressor, lsn, file, stats, buf, tmp, out, pre, wlog,
                    nwrites, nreads, flipped >>

\* The lsn is left as it is.
WLsnIncr_Skipped(s) ==
    /\ pc[s] = "w_lsn_incr"
    /\ lsn' = lsn
    /\ pc' = [pc EXCEPT ![s] = "w_lsn_copy"]
    /\ UNCHANGED << compressor, file, next_addr, stats, buf, tmp, loc, out, pre, wlog,
                    nwrites, nreads, flipped >>

\* WT_LSN_INCR(btree->lsn);
WLsnIncr(s) ==
    /\ pc[s] = "w_lsn_incr"
    /\ lsn' = lsn + 1
    /\ pc' = [pc EXCEPT ![s] = "w_lsn_copy"]
    /\ UNCHANGED << compressor, file, next_addr, stats, buf, tmp, loc, out, pre, wlog,
                    nwrites, nreads, flipped >>

\* The image m with dsk->lsn = v.
StampLsn(m, v) == Put(m, OFF_LSN, LE64(v))

\* dsk->lsn = btree->lsn;
WLsnCopy(s) ==
    /\ pc[s] = "w_lsn_copy"
    /\ IF loc[s].dsk = "tmp"
       THEN /\ tmp' = [tmp EXCEPT ![s].mem = StampLsn(@, lsn)]
            /\ buf' = buf
       ELSE /\ buf' = [buf EXCEPT ![s].mem = StampLsn(@, lsn)]
            /\ tmp' = tmp
    /\ pc' = [pc EXCEPT ![s] = "w_cksum"]
    /\ UNCHANGED << compressor, lsn, file, next_addr, stats, loc, out, pre, wlog,
                    nwrites, nreads, flipped >>

\* The checksum is computed over the image as it is, the old value of the
\* checksum field included.
SetChecksum_NoZero(m, align_size) == Put(m, OFF_CHECKSUM, __wt_cksum(m, align_size))

\* dsk->checksum = 0; dsk->checksum = __wt_cksum(dsk, align_size);
SetChecksum(m, align_size) ==
    Put(m, OFF_CHECKSUM, __wt_cksum(Put(m, OFF_CHECKSUM, LE32(0)), align_size))

WCksum(s) ==
    /\ pc[s] = "w_cksum"
    /\ IF loc[s].dsk = "tmp"
       THEN /\ tmp' = [tmp EXCEPT ![s].mem = SetChecksum(@, loc[s].align_size)]
            /\ buf' = buf
       ELSE /\ buf' = [buf EXCEPT ![s].mem = SetChecksum(@, loc[s].align_size)]
            /\ tmp' = tmp
    /\ pc' = [pc EXCEPT ![s] = "w_write"]
    /\ UNCHANGED << compressor, lsn, file, next_addr, stats, loc, out, pre, wlog,
                    nwrites, nreads, flipped >>

\* The file f with the bytes b stored at block address a.
FilePut(f, a, b) == [x \in (DOMAIN f) \cup {a} |-> IF x = a THEN b ELSE f[x]]

\* A failed file write gives the extent back to the allocator.
WWrite_Reclaims(s) ==
    /\ pc[s] = "w_write"
    /\ \/ /\ file' = FilePut(file, loc[s].addr, SubSeq(Dsk(s).mem, 1, loc[s].align_size))
          /\ loc' = [loc EXCEPT ![s].ret = OK, ![s].wsize = loc[s].align_size]
          /\ next_addr' = next_addr
          /\ pc' = [pc EXCEPT ![s] = "w_finish"]
       \/ /\ file' = file
          /\ loc' = [loc EXCEPT ![s].ret = "EIO", ![s].wsize = loc[s].align_size]
          /\ next_addr' = loc[s].addr
          /\ pc' = [pc EXCEPT ![s] = "w_err"]
    /\ UNCHANGED << compressor, lsn, stats, buf, tmp, out, pre, wlog,
                    nwrites, nreads, flipped >>

\* WT_ERR(__wt_write(session, btree->fh, WT_ADDR_TO_OFF(btree, addr), align_size, dsk));
WWrite(s) ==
    /\ pc[s] = "w_write"
    /\ \/ /\ file' = FilePut(file, loc[s].addr, SubSeq(Dsk(s).mem, 1, loc[s].align_size))
          /\ loc' = [loc EXCEPT ![s].ret = OK, ![s].wsize = loc[s].align_size]
          /\ pc' = [pc EXCEPT ![s] = "w_finish"]
       \/ /\ file' = file
          /\ loc' = [loc EXCEPT ![s].ret = "EIO", ![s].wsize = loc[s].align_size]
          /\ pc' = [pc EXCEPT ![s] = "w_err"]
    /\ UNCHANGED << compressor, lsn, next_addr, stats, buf, tmp, out, pre, wlog,
                    nwrites, nreads, flipped >>

\* WT_BSTAT_INCR(session, page_write); WT_CSTAT_INCR(session, block_write);
\* *addrp = addr; *sizep = align_size;
WFinish(s) ==
    /\ pc[s] = "w_finish"
    /\ stats' = [stats EXCEPT !.page_write = @ + 1, !.block_write = @ + 1]
    /\ out' = [out EXCEPT ![s] = [addrp |-> loc[s].addr, sizep |-> loc[s].align_size]]
    /\ pc' = [pc EXCEPT ![s] = "w_err"]
    /\ UNCHANGED << compressor, lsn, file, next_addr, buf, tmp, loc, pre, wlog,
                    nwrites, nreads, flipped >>

\* err: if (tmp != NULL) __wt_scr_release(&tmp); return (ret);
WErr(s) ==
    /\ pc[s] = "w_err"
    /\ IF ~tmp[s].null
       THEN /\ tmp' = [tmp EXCEPT ![s] = NoBuf]
            /\ loc' = [loc EXCEPT ![s].scr = @ - 1]
       ELSE UNCHANGED << tmp, loc >>
    /\ pc' = [pc EXCEPT ![s] = "w_ret"]
    /\ UNCHANGED << compressor, lsn, file, next_addr, stats, buf, out, pre, wlog,
                    nwrites, nreads, flipped >>

\* The caller has its answer; a successful write is entered in the log with
\* the lsn its stored header carries.
WriteReturn(s) ==
    /\ pc[s] = "w_ret"
    /\ wlog' = IF loc[s].ret = OK
               THEN Append(wlog, [addr |-> out[s].addrp, size |-> out[s].sizep,
                                  lsn |-> Get32(file[out[s].addrp], OFF_LSN),
                                  page |-> loc[s].page, session |-> s])
               ELSE wlog
    /\ pc' = [pc EXCEPT ![s] = "idle"]
    /\ buf' = [buf EXCEPT ![s] = NoBuf]
    /\ tmp' = [tmp EXCEPT ![s] = NoBuf]
    /\ loc' = [loc EXCEPT ![s] = LocInit]
    /\ pre' = [pre EXCEPT ![s] = PreInit]
    /\ UNCHANGED << compressor, lsn, file, next_addr, stats, out, nwrites, nreads, flipped >>

\* The steps of a call that is under way.
WriteBody(s) ==
    \/ WValidate(s)
    \/ WDecide(s)
    \/ WPrep(s)
    \/ WScrAlloc(s)
    \/ WCompress(s)
    \/ WAdopt(s)
    \/ WAlloc(s)
    \/ WLsnIncr(s)
    \/ WLsnCopy(s)
    \/ WCksum(s)
    \/ WWrite(s)
    \/ WFinish(s)
    \/ WErr(s)
    \/ WriteReturn(s)

(***************************************************************************)
(* __wt_disk_read                                                          *)
(***************************************************************************)

\* The logical lengths the caller's buffer may carry into a read: the call
\* takes the block's size as an argument and asks nothing of buf->size.
ReadBufSizes(size) == {0, COMPRESS_SKIP + 8, size}

\* The call: the caller asks for a block a write has returned, with a buffer
\* of at least size bytes.
ReadCall(s, w, bsz) ==
    /\ pc[s] = "idle"
    /\ nreads < MaxReads
    /\ nreads' = nreads + 1
    /\ LET b == MkBuf([i \in 1..w.size |-> Stale], bsz)
       IN  /\ buf' = [buf EXCEPT ![s] = b]
           /\ pre' = [pre EXCEPT ![s] = [buf |-> b, file |-> << >>, lsn |-> lsn, stats |-> stats]]
    /\ tmp' = [tmp EXCEPT ![s] = NoBuf]
    /\ loc' = [loc EXCEPT ![s] = [LocInit EXCEPT !.raddr = w.addr, !.rsize = w.size,
                                                 !.page = w.page]]
    /\ pc' = [pc EXCEPT ![s] = "r_read"]
    /\ UNCHANGED << compressor, lsn, file, next_addr, stats, out, wlog, nwrites, flipped >>

\* WT_RET(__wt_read(session, fh, WT_ADDR_TO_OFF(btree, addr), size, buf->mem));
RRead(s) ==
    /\ pc[s] = "r_read"
    /\ \/ /\ buf' = [buf EXCEPT ![s].mem = Put(@, 0, SubSeq(file[loc[s].raddr], 1, loc[s].rsize))]
          /\ loc' = [loc EXCEPT ![s].ret = OK]
          /\ pc' = [pc EXCEPT ![s] = "r_cksum"]
       \/ /\ buf' = buf
          /\ loc' = [loc EXCEPT ![s].ret = "EIO"]
          /\ pc' = [pc EXCEPT ![s] = "r_ret"]
    /\ UNCHANGED << compressor, lsn, file, next_addr, stats, tmp, out, pre, wlog,
                    nwrites, nreads, flipped >>

\* Only the low 16 bits of the two checksums are compared.
ChecksumError_Low16(checksum, m, size) ==
    SubSeq(checksum, 1, 2) # SubSeq(__wt_cksum(m, size), 1, 2)

\* checksum != __wt_cksum(dsk, size), with dsk->checksum already set to 0 in m.
ChecksumError(checksum, m, size) == checksum # __wt_cksum(m, size)

\* The read counters are incremented before the checksums are compared.
RCksum_CountsFirst(s) ==
    /\ pc[s] = "r_cksum"
    /\ stats' = [stats EXCEPT !.page_read = @ + 1, !.block_read = @ + 1]
    /\ LET checksum == Bytes(buf[s].mem, OFF_CHECKSUM, 4)
           m        == Put(buf[s].mem, OFF_CHECKSUM, LE32(0))
       IN  /\ buf' = [buf EXCEPT ![s].mem = m]
           /\ IF ChecksumError(checksum, m, loc[s].rsize)
              THEN /\ loc' = [loc EXCEPT ![s].ret = "WT_ERROR", ![s].checksum = checksum]
                   /\ pc' = [pc EXCEPT ![s] = "r_ret"]
              ELSE /\ loc' = [loc EXCEPT ![s].checksum = checksum]
                   /\ pc' = [pc EXCEPT ![s] = "r_stat"]
    /\ UNCHANGED << compressor, lsn, file, next_addr, tmp, out, pre, wlog,
                    nwrites, nreads, flipped >>

\* checksum = dsk->checksum; dsk->checksum = 0;
\* if (checksum != __wt_cksum(dsk, size)) WT_FAILURE_RET(session, WT_ERROR, ...);
RCksum(s) ==
    /\ pc[s] = "r_cksum"
    /\ LET checksum == Bytes(buf[s].mem, OFF_CHECKSUM, 4)
           m        == Put(buf[s].mem, OFF_CHECKSUM, LE32(0))
       IN  /\ buf' = [buf EXCEPT ![s].mem = m]
           /\ IF ChecksumError(checksum, m, loc[s].rsize)
              THEN /\ loc' = [loc EXCEPT ![s].ret = "WT_ERROR", ![s].checksum = checksum]
                   /\ pc' = [pc EXCEPT ![s] = "r_ret"]
              ELSE /\ loc' = [loc EXCEPT ![s].checksum = checksum]
                   /\ pc' = [pc EXCEPT ![s] = "r_stat"]
    /\ UNCHANGED << compressor, lsn, file, next_addr, stats, tmp, out, pre, wlog,
                    nwrites, nreads, flipped >>

\* dsk->size == dsk->memsize
NotCompressed(m) == Bytes(m, OFF_SIZE, 4) = Bytes(m, OFF_MEMSIZE, 4)

\* The read of a compressed block is not counted before it is decompressed.
RStat_UncompressedOnly(s) ==
    /\ pc[s] = "r_stat"
    /\ IF NotCompressed(buf[s].mem)
       THEN /\ stats' = [stats EXCEPT !.page_read = @ + 1, !.block_read = @ + 1]
            /\ loc' = [loc EXCEPT ![s].ret = OK]
            /\ pc' = [pc EXCEPT ![s] = "r_ret"]
       ELSE /\ stats' = stats
            /\ loc' = loc
            /\ pc' = [pc EXCEPT ![s] = "r_scr"]
    /\ UNCHANGED << compressor, lsn, file, next_addr, buf, tmp, out, pre, wlog,
                    nwrites, nreads, flipped >>

\* WT_BSTAT_INCR(session, page_read); WT_CSTAT_INCR(session, block_read);
\* if (dsk->size == dsk->memsize) return (0);
RStat(s) ==
    /\ pc[s] = "r_stat"
    /\ stats' = [stats EXCEPT !.page_read = @ + 1, !.block_read = @ + 1]
    /\ IF NotCompressed(buf[s].mem)
       THEN /\ loc' = [loc EXCEPT ![s].ret = OK]
            /\ pc' = [pc EXCEPT ![s] = "r_ret"]
       ELSE /\ loc' = loc
            /\ pc' = [pc EXCEPT ![s] = "r_scr"]
    /\ UNCHANGED << compressor, lsn, file, next_addr, buf, tmp, out, pre, wlog,
                    nwrites, nreads, flipped >>

\* WT_RET(__wt_scr_alloc(session, dsk->memsize, &tmp));
RScrAlloc(s) ==
    /\ pc[s] = "r_scr"
    /\ \/ /\ \E t \in ScrAlloc(Get32(buf[s].mem, OFF_MEMSIZE)) : tmp' = [tmp EXCEPT ![s] = t]
          /\ loc' = [loc EXCEPT ![s].scr = @ + 1]
          /\ pc' = [pc EXCEPT ![s] = "r_decomp"]
       \/ /\ loc' = [loc EXCEPT ![s].ret = "ENOMEM"]
          /\ pc' = [pc EXCEPT ![s] = "r_ret"]
          /\ tmp' = tmp
    /\ UNCHANGED << compressor, lsn, file, next_addr, stats, buf, out, pre, wlog,
                    nwrites, nreads, flipped >>

\* src.size = buf->size - COMPRESS_SKIP;
SrcSize(b, size) == USub(b.size, COMPRESS_SKIP)

\* dst.size = tmp->size - COMPRESS_SKIP;
DstSize(t, memsize) == USub(t.size, COMPRESS_SKIP)

\* The buffers are swapped before the result of decompress is looked at.
RDecomp_SwapFirst(s) ==
    /\ pc[s] = "r_decomp"
    /\ LET t0 == [tmp[s] EXCEPT !.mem = memcpy(@, buf[s].mem, COMPRESS_SKIP)]
           avail == Bytes(buf[s].mem, COMPRESS_SKIP, Len(buf[s].mem) - COMPRESS_SKIP)
       IN  \E r \in Decompress(avail, SrcSize(buf[s], loc[s].rsize),
                               DstSize(t0, Get32(buf[s].mem, OFF_MEMSIZE)),
                               Len(t0.mem) - COMPRESS_SKIP) :
               /\ loc' = [loc EXCEPT ![s].ret = r.ret]
               /\ buf' = [buf EXCEPT ![s] = [t0 EXCEPT !.mem = Put(@, COMPRESS_SKIP, r.data)]]
               /\ tmp' = [tmp EXCEPT ![s] = buf[s]]
    /\ pc' = [pc EXCEPT ![s] = "r_err"]
    /\ UNCHANGED << compressor, lsn, file, next_addr, stats, out, pre, wlog,
                    nwrites, nreads, flipped >>

\* A failure of decompress returns at once, without going through err.
RDecomp_ReturnsOnError(s) ==
    /\ pc[s] = "r_decomp"
    /\ LET t0 == [tmp[s] EXCEPT !.mem = memcpy(@, buf[s].mem, COMPRESS_SKIP)]
           avail == Bytes(buf[s].mem, COMPRESS_SKIP, Len(buf[s].mem) - COMPRESS_SKIP)
       IN  \E r \in Decompress(avail, SrcSize(buf[s], loc[s].rsize),
                               DstSize(t0, Get32(buf[s].mem, OFF_MEMSIZE)),
                               Len(t0.mem) - COMPRESS_SKIP) :
               LET t1 == [t0 EXCEPT !.mem = Put(@, COMPRESS_SKIP, r.data)]
               IN  /\ loc' = [loc EXCEPT ![s].ret = r.ret]
                   /\ IF r.ret = OK
                      THEN /\ buf' = [buf EXCEPT ![s] = t1]
                           /\ tmp' = [tmp EXCEPT ![s] = buf[s]]
                           /\ pc' = [pc EXCEPT ![s] = "r_err"]
                      ELSE /\ buf' = buf
                           /\ tmp' = [tmp EXCEPT ![s] = t1]
                           /\ pc' = [pc EXCEPT ![s] = "r_ret"]
    /\ UNCHANGED << compressor, lsn, file, next_addr, stats, out, pre, wlog,
                    nwrites, nreads, flipped >>

\* memcpy(tmp->mem, buf->mem, COMPRESS_SKIP);
\* WT_ERR(btree->compressor->decompress(btree->compressor, &session->iface, &src, &dst));
\* __wt_buf_swap(tmp, buf);
RDecomp(s) ==
    /\ pc[s] = "r_decomp"
    /\ LET t0 == [tmp[s] EXCEPT !.mem = memcpy(@, buf[s].mem, COMPRESS_SKIP)]
           avail == Bytes(buf[s].mem, COMPRESS_SKIP, Len(buf[s].mem) - COMPRESS_SKIP)
       IN  \E r \in Decompress(avail, SrcSize(buf[s], loc[s].rsize),
                               DstSize(t0, Get32(buf[s].mem, OFF_MEMSIZE)),
                               Len(t0.mem) - COMPRESS_SKIP) :
               LET t1 == [t0 EXCEPT !.mem = Put(@, COMPRESS_SKIP, r.data)]
               IN  /\ loc' = [loc EXCEPT ![s].ret = r.ret]
                   /\ IF r.ret = OK
                      THEN /\ buf' = [buf EXCEPT ![s] = t1]
                           /\ tmp' = [tmp EXCEPT ![s] = buf[s]]
                      ELSE /\ buf' = buf
                           /\ tmp' = [tmp EXCEPT ![s] = t1]
    /\ pc' = [pc EXCEPT ![s] = "r_err"]
    /\ UNCHANGED << compressor, lsn, file, next_addr, stats, out, pre, wlog,
                    nwrites, nreads, flipped >>

\* err: if (tmp != NULL) __wt_scr_release(&tmp); return (ret);
RErr(s) ==
    /\ pc[s] = "r_err"
    /\ IF ~tmp[s].null
       THEN /\ tmp' = [tmp EXCEPT ![s] = NoBuf]
            /\ loc' = [loc EXCEPT ![s].scr = @ - 1]
       ELSE UNCHANGED << tmp, loc >>
    /\ pc' = [pc EXCEPT ![s] = "r_ret"]
    /\ UNCHANGED << compressor, lsn, file, next_addr, stats, buf, out, pre, wlog,
                    nwrites, nreads, flipped >>

\* The caller has its answer.
ReadReturn(s) ==
    /\ pc[s] = "r_ret"
    /\ pc' = [pc EXCEPT ![s] = "idle"]
    /\ buf' = [buf EXCEPT ![s] = NoBuf]
    /\ tmp' = [tmp EXCEPT ![s] = NoBuf]
    /\ loc' = [loc EXCEPT ![s] = LocInit]
    /\ pre' = [pre EXCEPT ![s] = PreInit]
    /\ UNCHANGED << compressor, lsn, file, next_addr, stats, out, wlog, nwrites,
                    nreads, flipped >>

ReadStep(s) ==
    \/ \E i \in 1..Len(wlog) : \E bsz \in ReadBufSizes(wlog[i].size) : ReadCall(s, wlog[i], bsz)
    \/ RRead(s)
    \/ RCksum(s)
    \/ RStat(s)
    \/ RScrAlloc(s)
    \/ RDecomp(s)
    \/ RErr(s)
    \/ ReadReturn(s)

(***************************************************************************)
(* Corruption of the medium: one bit of one stored block changes while no  *)
(* call is running.                                                        *)
(***************************************************************************)

\* The byte b with its bit k inverted.
FlipBit(b, k) == IF (b \div (2 ^ k)) % 2 = 1 THEN b - 2 ^ k ELSE b + 2 ^ k

Corrupt(a, i, k) ==
    /\ file' = [file EXCEPT ![a][i] = FlipBit(@, k)]
    /\ flipped' = [addr |-> a, byte |-> i, bit |-> k]
    /\ UNCHANGED << compressor, lsn, next_addr, stats, pc, buf, tmp, loc, out, pre,
                    wlog, nwrites, nreads >>

CorruptStep ==
    /\ \A s \in Sessions : pc[s] = "idle"
    /\ flipped = NoFlip
    /\ nwrites <= MaxCorruptWrites
    /\ nreads < MaxReads
    /\ \E a \in DOMAIN file : \E i \in 1..Len(file[a]) : \E k \in 0..7 : Corrupt(a, i, k)

(***************************************************************************)
(* One session making its calls one after another.                         *)
(***************************************************************************)

SeqWriteCall(p) == nwrites < MaxWrites /\ WriteCall(1, p)

Next ==
    \/ \E p \in Pages : SeqWriteCall(p)
    \/ WriteBody(1)
    \/ ReadStep(1)

Spec == Init /\ [][Next]_vars

(***************************************************************************)
(* One session writing more pages, one after another: the pages are those  *)
(* of the smallest block and of a block that is stored compressed.         *)
(***************************************************************************)

LsnPages == {p \in Pages : p.size \in {40, 150}}

LsnWriteCall(p) == nwrites < MaxLsnWrites /\ WriteCall(1, p)

NextLsn ==
    \/ \E p \in LsnPages : LsnWriteCall(p)
    \/ WriteBody(1)

SpecLsn == Init /\ [][NextLsn]_vars

(***************************************************************************)
(* One session on a medium that may corrupt one bit of a stored block.     *)
(***************************************************************************)

CorruptWriteCall(p) == flipped = NoFlip /\ nwrites < MaxWrites /\ WriteCall(1, p)

NextCorrupt ==
    \/ \E p \in Pages : CorruptWriteCall(p)
    \/ WriteBody(1)
    \/ ReadStep(1)
    \/ CorruptStep

SpecCorrupt == Init /\ [][NextCorrupt]_vars

(***************************************************************************)
(* Several sessions writing to the same btree at once.                     *)
(***************************************************************************)

ConcWriteCall(s, p) == nwrites < MaxConcWrites /\ WriteCall(s, p)

NextConc ==
    \E s \in Sessions :
        \/ \E p \in Pages : ConcWriteCall(s, p)
        \/ WriteBody(s)

SpecConc == Init /\ [][NextConc]_vars

(***************************************************************************)
(* What the calls are observed to do.  A call that has reached w_ret or    *)
(* r_ret has returned loc[s].ret to its caller; at w_err and r_err the     *)
(* scratch buffer of the call is still held.                               *)
(***************************************************************************)

\* The block a write has stored, once it is past its file write.
Stored(s) == file[loc[s].addr]

\* The header sizes of an image, as the four bytes of each field.
HdrSize(m) == Bytes(m, OFF_SIZE, 4)
HdrMemsize(m) == Bytes(m, OFF_MEMSIZE, 4)

\* The payload of the page a call is about.
PagePayload(s) == Payload(loc[s].page)

\* A read that failed for a reason outside the block: the file read or the
\* scratch allocation.
EnvError(r) == r \in {"EIO", "ENOMEM"}

(* C1: round trip.  A read of a block a successful write returned succeeds  *)
(* (unless the file read or the scratch allocation fails) and leaves the    *)
(* page's payload and page type, as handed to the write, in the first       *)
(* page.size bytes of the caller's buffer.                                  *)
C1_RoundTrip ==
    \A s \in Sessions :
        (pc[s] = "r_ret" /\ ~EnvError(loc[s].ret)) =>
            /\ loc[s].ret = OK
            /\ Len(buf[s].mem) >= loc[s].page.size
            /\ Bytes(buf[s].mem, COMPRESS_SKIP, loc[s].page.size - COMPRESS_SKIP)
                   = PagePayload(s)
            /\ buf[s].mem[OFF_TYPE + 1] = loc[s].page.type

(* C3: lsn uniqueness under concurrency.  No two successful writes have     *)
(* stamped the same lsn into the headers they stored.                       *)
C3_LsnUnique ==
    \A i, j \in 1..Len(wlog) : i # j => wlog[i].lsn # wlog[j].lsn

(* C4: lsn monotonicity.  Of the writes of one session made one after       *)
(* another, each successful one has stored a header lsn strictly greater    *)
(* than the successful write before it, whatever writes failed in between.  *)
C4_LsnMonotonic ==
    \A i \in 1..(Len(wlog) - 1) : wlog[i].lsn < wlog[i + 1].lsn

\* Two successful writes with a write that failed after its allocation
\* between them.
C4_Witness ==
    /\ Len(wlog) = 2
    /\ nwrites = 3
    /\ wlog[2].lsn = wlog[1].lsn + 2
    /\ \A s \in Sessions : pc[s] = "idle"

(* C2: checksum detection.  When one bit of a stored block has changed,     *)
(* a read of that block does not get past the checksum comparison: it       *)
(* returns WT_ERROR (or the error of the file read), never success.         *)
C2_ChecksumDetects ==
    \A s \in Sessions :
        flipped.addr = loc[s].raddr =>
            /\ pc[s] \notin {"r_stat", "r_scr", "r_decomp", "r_err"}
            /\ (pc[s] = "r_ret" /\ loc[s].ret # "EIO") => loc[s].ret = "WT_ERROR"

\* A read of a block with a changed bit in its payload or padding has
\* returned WT_ERROR.
C2_Witness ==
    /\ pc[1] = "r_ret"
    /\ flipped.addr = loc[1].raddr
    /\ flipped.byte > COMPRESS_SKIP
    /\ loc[1].ret = "WT_ERROR"

\* The block a read has been asked for, as the file holds it, with the
\* checksum field set to zero.
RawBlock(s) == Put(SubSeq(file[loc[s].raddr], 1, loc[s].rsize), OFF_CHECKSUM, LE32(0))

C6_WriteAllOrNothing ==
    \A s \in Sessions :
        /\ (pc[s] = "w_err" /\ loc[s].ret = OK) =>
               /\ out[s] = [addrp |-> loc[s].addr, sizep |-> loc[s].align_size]
               /\ file = FilePut(pre[s].file, loc[s].addr,
                                 SubSeq(Dsk(s).mem, 1, loc[s].align_size))
        /\ (pc[s] = "w_ret" /\ loc[s].ret = OK) =>
               /\ Len(file[out[s].addrp]) = out[s].sizep
               /\ file = FilePut(pre[s].file, out[s].addrp, file[out[s].addrp])
        /\ (pc[s] = "w_ret" /\ loc[s].ret # OK) => file = pre[s].file
        /\ (pc[s] = "w_ret" /\ loc[s].ret = "ENOSPC") =>
               /\ loc[s].wsize = 0
               /\ tmp[s].null
               /\ loc[s].scr = 0

\* A write that held a scratch buffer has failed in the allocator.
C6_Witness ==
    /\ pc[1] = "w_ret"
    /\ loc[1].ret = "ENOSPC"
    /\ loc[1].cret # ""

\* What a stored block holds after its header.
StoredPlain(s) ==
    Bytes(Stored(s), COMPRESS_SKIP, loc[s].page.size - COMPRESS_SKIP) = PagePayload(s)

StoredCompressed(s) ==
    Bytes(Stored(s), COMPRESS_SKIP, loc[s].dst_size) = RleEncode(PagePayload(s))

(* C7: compression adoption rule.  When compress was called and returned a  *)
(* compressed length, the stored block is in compressed form (header size   *)
(* differs from header memsize, the payload is the compressor's output)     *)
(* exactly when the aligned compressed size is smaller than the aligned     *)
(* uncompressed size; otherwise the uncompressed form is stored.            *)
C7_AdoptionRule ==
    \A s \in Sessions :
        (pc[s] = "w_err" /\ loc[s].ret = OK /\ loc[s].cret = OK) =>
            LET ca == WT_ALIGN(loc[s].dst_size + COMPRESS_SKIP, allocsize)
                ua == WT_ALIGN(loc[s].page.size, allocsize)
            IN  /\ (HdrSize(Stored(s)) # HdrMemsize(Stored(s))) <=> (ca < ua)
                /\ (ca < ua) => (StoredCompressed(s) /\ Len(Stored(s)) = ca)
                /\ (ca >= ua) => (StoredPlain(s) /\ Len(Stored(s)) = ua)

\* compress returned a length that saves no allocation unit, and the write
\* has stored the uncompressed form.
C7_Witness ==
    /\ pc[1] = "w_err"
    /\ loc[1].ret = OK
    /\ loc[1].cret = OK
    /\ HdrSize(Stored(1)) = HdrMemsize(Stored(1))

(* C8: compression fallback.  With a compressor whose compress always       *)
(* fails, the write never returns the compressor's error: it succeeds when  *)
(* its allocation and its file write succeed, and the header it stores has  *)
(* size = memsize = the image size rounded up to the allocation unit.       *)
C8_CompressFallback ==
    \A s \in Sessions :
        (compressor = "fail" /\ pc[s] = "w_ret") =>
            /\ loc[s].ret # "CODEC_ERROR"
            /\ (loc[s].addr # NoAddr /\ file # pre[s].file) => loc[s].ret = OK
            /\ loc[s].ret = OK =>
                   LET a == WT_ALIGN(loc[s].page.size, allocsize)
                   IN  /\ HdrSize(Stored(s)) = LE32(a)
                       /\ HdrMemsize(Stored(s)) = LE32(a)
                       /\ out[s].sizep = a

\* compress was called, failed, and the write has succeeded.
C8_Witness ==
    /\ compressor = "fail"
    /\ pc[1] = "w_ret"
    /\ loc[1].ret = OK
    /\ loc[1].cret = "CODEC_ERROR"

(* C9: header size invariant.  The header of every block a successful       *)
(* write has stored has size <= memsize, size = memsize exactly when the    *)
(* payload stored is the page's own, size < memsize exactly when it is the  *)
(* compressor's output; and size is the number of bytes stored and the      *)
(* size returned.                                                           *)
C9_HeaderSizes ==
    \A s \in Sessions :
        (pc[s] = "w_err" /\ loc[s].ret = OK) =>
            LET sz == Get32(Stored(s), OFF_SIZE)
                ms == Get32(Stored(s), OFF_MEMSIZE)
            IN  /\ sz <= ms
                /\ (sz = ms) <=> (loc[s].dsk = "buf" /\ StoredPlain(s))
                /\ (sz < ms) <=> (loc[s].dsk = "tmp" /\ StoredCompressed(s))
                /\ sz = Len(Stored(s))
                /\ sz = out[s].sizep

\* A write has stored a compressed block.
C9_Witness ==
    /\ pc[1] = "w_err"
    /\ loc[1].ret = OK
    /\ loc[1].dsk = "tmp"
    /\ Get32(Stored(1), OFF_SIZE) < Get32(Stored(1), OFF_MEMSIZE)

(* C10: alignment invariant.  The size a successful write returns is a      *)
(* multiple of the allocation unit, not zero, and it is the size that was   *)
(* passed to the allocator and to the file write.                           *)
C10_Alignment ==
    \A s \in Sessions :
        (pc[s] = "w_ret" /\ loc[s].ret = OK) =>
            /\ loc[s].page.size >= COMPRESS_SKIP
            /\ out[s].sizep > 0
            /\ out[s].sizep % allocsize = 0
            /\ loc[s].asize = out[s].sizep
            /\ loc[s].wsize = out[s].sizep

\* A write on the compressed path has returned a size of two allocation units.
C10_Witness ==
    /\ pc[1] = "w_ret"
    /\ loc[1].ret = OK
    /\ loc[1].dsk = "tmp"
    /\ out[1].sizep = 2 * allocsize

\* The checksum a read has found in the block differs from the checksum of
\* the size bytes read, computed with the checksum field set to zero.
Mismatch(s) ==
    Bytes(file[loc[s].raddr], OFF_CHECKSUM, 4) # __wt_cksum(RawBlock(s), loc[s].rsize)

\* Nothing of a read but its file read has happened.
ReadUntouched(s) ==
    /\ tmp[s].null
    /\ loc[s].scr = 0
    /\ stats = pre[s].stats
    /\ buf[s].size = pre[s].buf.size
    /\ Len(buf[s].mem) = Len(pre[s].buf.mem)

(* C11: checksum verification is mandatory and comes first.  A read        *)
(* compares the checksums right after its file read, before it has         *)
(* acquired a scratch buffer, counted the read or touched anything else;   *)
(* on a mismatch its next step is the return of WT_ERROR, with no scratch  *)
(* buffer, no decompression, no swap and no counter incremented; and a     *)
(* read is past the comparison, or returns success, only when the          *)
(* checksums matched.                                                      *)
C11_ChecksumFirst ==
    /\ [](\A s \in Sessions :
            /\ pc[s] = "r_cksum" => ReadUntouched(s)
            /\ (pc[s] = "r_ret" /\ loc[s].ret = "WT_ERROR") =>
                   (Mismatch(s) /\ ReadUntouched(s))
            /\ (pc[s] \in {"r_stat", "r_scr", "r_decomp", "r_err"}
                  \/ (pc[s] = "r_ret" /\ loc[s].ret = OK)) => ~Mismatch(s))
    /\ [][\A s \in Sessions :
            (pc[s] = "r_cksum" /\ Mismatch(s)) =>
                /\ pc'[s] = "r_ret"
                /\ loc'[s].ret = "WT_ERROR"
                /\ tmp' = tmp
                /\ stats' = stats]_vars

\* A read of a block whose checksum field has a changed bit has returned
\* WT_ERROR.
C11_Witness ==
    /\ pc[1] = "r_ret"
    /\ loc[1].ret = "WT_ERROR"
    /\ flipped.addr = loc[1].raddr
    /\ flipped.byte <= 4

(* C12: scratch buffers never outlive a call.  A call holds at most one    *)
(* scratch buffer, the one tmp refers to; when the call returns, on any    *)
(* path, and between calls, none is outstanding; and what a successful     *)
(* read of a compressed block releases is the caller's old buffer with the *)
(* compressed block in it, the caller now owning the scratch memory.       *)
C12_ScratchReleased ==
    \A s \in Sessions :
        /\ loc[s].scr \in {0, 1}
        /\ (loc[s].scr = 1) <=> ~tmp[s].null
        /\ pc[s] \in {"idle", "w_ret", "r_ret"} => (loc[s].scr = 0 /\ tmp[s].null)
        /\ (pc[s] = "r_err" /\ loc[s].ret = OK) =>
               /\ tmp[s] = [pre[s].buf EXCEPT !.mem = Put(@, 0, RawBlock(s))]
               /\ Len(buf[s].mem) = Get32(RawBlock(s), OFF_MEMSIZE)
               /\ buf[s] # tmp[s]

\* A read has decompressed a block and swapped the buffers, and is about
\* to release the scratch buffer.
C12_Witness ==
    /\ pc[1] = "r_err"
    /\ loc[1].ret = OK
    /\ ~tmp[1].null

(***************************************************************************)
(* One session making its calls one after another, a write that has been   *)
(* called going on until it returns.                                       *)
(***************************************************************************)

SpecFair == Spec /\ WF_vars(WriteBody(1))

\* The places of a write, in the order of the function's text.
WriteRank(p) ==
    CASE p = "w_validate" -> 1   \* Validate, Align
      [] p = "w_decide"   -> 2
      [] p = "w_scr"      -> 3   \* CompressAttempt
      [] p = "w_compress" -> 4
      [] p = "w_adopt"    -> 5   \* Adopt, or Fallback
      [] p = "w_prep"     -> 6   \* UncompressedPrep
      [] p = "w_alloc"    -> 7   \* Allocate
      [] p = "w_lsn_incr" -> 8   \* Stamp
      [] p = "w_lsn_copy" -> 9
      [] p = "w_cksum"    -> 10
      [] p = "w_write"    -> 11  \* Persist
      [] p = "w_finish"   -> 12  \* Done
      [] p = "w_err"      -> 13
      [] p = "w_ret"      -> 14

WritePcs ==
    { "w_validate", "w_decide", "w_scr", "w_compress", "w_adopt", "w_prep", "w_alloc",
      "w_lsn_incr", "w_lsn_copy", "w_cksum", "w_write", "w_finish", "w_err", "w_ret" }

\* The steps the state machine allows, as pairs of places.
WriteEdges ==
    { << "idle", "w_validate" >>, << "w_validate", "w_decide" >>,
      << "w_decide", "w_prep" >>, << "w_decide", "w_scr" >>,
      << "w_scr", "w_compress" >>, << "w_scr", "w_ret" >>,
      << "w_compress", "w_adopt" >>, << "w_compress", "w_prep" >>,
      << "w_adopt", "w_alloc" >>, << "w_adopt", "w_prep" >>,
      << "w_prep", "w_alloc" >>,
      << "w_alloc", "w_lsn_incr" >>, << "w_alloc", "w_err" >>,
      << "w_lsn_incr", "w_lsn_copy" >>, << "w_lsn_copy", "w_cksum" >>,
      << "w_cksum", "w_write" >>,
      << "w_write", "w_finish" >>, << "w_write", "w_err" >>,
      << "w_finish", "w_err" >>, << "w_err", "w_ret" >>, << "w_ret", "idle" >> }

\* The steps on which a write gets its error.
WriteErrorEdges ==
    { << "w_scr", "w_ret" >>, << "w_alloc", "w_err" >>, << "w_write", "w_err" >> }

(* C13: a write follows the state machine.  Each step of a write is one of *)
(* the allowed steps, which only lead forward, so that the compressor, the *)
(* allocator and the file write are each called at most once; the file     *)
(* write is not reached without an address from the allocator; a write     *)
(* has an error only from scratch acquisition, the allocator or the file   *)
(* write; and every write that was called returns.                         *)
C13_WriteStateMachine ==
    /\ \A e \in WriteEdges :
           (e[1] \in WritePcs /\ e[2] \in WritePcs) => WriteRank(e[1]) < WriteRank(e[2])
    /\ [](\A s \in Sessions :
            /\ pc[s] \in {"w_lsn_incr", "w_lsn_copy", "w_cksum", "w_write", "w_finish"} =>
                   (loc[s].addr # NoAddr /\ loc[s].asize = loc[s].align_size)
            /\ loc[s].wsize > 0 => loc[s].addr # NoAddr
            /\ (pc[s] \in WritePcs /\ loc[s].ret \notin {OK, "CODEC_ERROR"}) =>
                   /\ pc[s] \in {"w_err", "w_ret"}
                   /\ loc[s].ret \in {"ENOMEM", "ENOSPC", "EIO"}
            /\ (pc[s] \in WritePcs /\ loc[s].ret = "CODEC_ERROR") =>
                   pc[s] \in {"w_prep", "w_alloc"})
    /\ [][\A s \in Sessions :
            (pc[s] \in WritePcs \/ pc'[s] \in WritePcs) =>
                /\ pc'[s] # pc[s] => << pc[s], pc'[s] >> \in WriteEdges
                /\ (pc'[s] \in WritePcs /\ loc'[s].ret \notin {OK, "CODEC_ERROR"}
                      /\ loc[s].ret \in {OK, "CODEC_ERROR"}) =>
                       << pc[s], pc'[s] >> \in WriteErrorEdges]_vars
    /\ \A s \in {1} : (pc[s] \in WritePcs) ~> (pc[s] = "idle")

\* A write whose compressed form saved nothing has stored the uncompressed
\* form and is done.
C13_Witness ==
    /\ pc[1] = "w_finish"
    /\ loc[1].cret = OK
    /\ loc[1].dsk = "buf"

\* The checksum field of the image m is the checksum of its first n bytes
\* computed with the field set to zero.
ChecksumOk(m, n) ==
    Bytes(m, OFF_CHECKSUM, 4) = __wt_cksum(Put(m, OFF_CHECKSUM, LE32(0)), n)

\* Where the logical content of the block a write stores ends.
ContentEnd(s) ==
    IF loc[s].dsk = "tmp" THEN loc[s].dst_size + COMPRESS_SKIP ELSE loc[s].page.size

(* C14: the persisted checksum is self-consistent.  The checksum field of  *)
(* a block a successful write has stored is the checksum of all its        *)
(* align_size bytes with the field set to zero, and those bytes carry the  *)
(* final size and memsize, the stamped lsn and the zero padding; the       *)
(* chosen buffer is byte for byte what was checksummed and stored.         *)
C14_ChecksumConsistent ==
    \A s \in Sessions :
        /\ pc[s] = "w_write" => ChecksumOk(Dsk(s).mem, loc[s].align_size)
        /\ (pc[s] = "w_err" /\ loc[s].ret = OK) =>
               /\ Len(Stored(s)) = loc[s].align_size
               /\ ChecksumOk(Stored(s), loc[s].align_size)
               /\ HdrSize(Stored(s)) = LE32(loc[s].align_size)
               /\ HdrMemsize(Stored(s)) =
                      LE32(IF loc[s].dsk = "tmp" THEN loc[s].page.size ELSE loc[s].align_size)
               /\ Bytes(Stored(s), OFF_LSN, 8) = LE64(lsn)
               /\ lsn = pre[s].lsn + 1
               /\ \A i \in (ContentEnd(s) + 1)..loc[s].align_size : Stored(s)[i] = 0
               /\ Stored(s) = SubSeq(Dsk(s).mem, 1, loc[s].align_size)

\* The second write of a session has stored a compressed block with lsn 2.
C14_Witness ==
    /\ pc[1] = "w_err"
    /\ loc[1].ret = OK
    /\ loc[1].dsk = "tmp"
    /\ Get32(Stored(1), OFF_LSN) = 2

(* C15: zero padding.  In a block a successful write has stored, the bytes *)
(* from the end of the logical content to the aligned end are zero: from   *)
(* the page's length on the uncompressed path, from the compressed length  *)
(* plus 32 on the compressed path, where the header has size = the aligned *)
(* size and memsize = the page's length.  (With a unit of 512, a length of *)
(* 600 gives 1024 bytes with 424 zeroes, and 512 bytes when compressed to  *)
(* 300.)                                                                   *)
C15_ZeroPadding ==
    /\ WT_ALIGN(600, 512) = 1024
    /\ WT_ALIGN(600, 512) - 600 = 424
    /\ WT_ALIGN(300 + COMPRESS_SKIP, 512) = 512
    /\ \A s \in Sessions :
        (pc[s] = "w_err" /\ loc[s].ret = OK) =>
            /\ loc[s].dsk = "buf" =>
                   /\ Len(Stored(s)) = WT_ALIGN(loc[s].page.size, allocsize)
                   /\ StoredPlain(s)
                   /\ \A i \in (loc[s].page.size + 1)..Len(Stored(s)) : Stored(s)[i] = 0
            /\ loc[s].dsk = "tmp" =>
                   /\ Len(Stored(s)) = WT_ALIGN(loc[s].dst_size + COMPRESS_SKIP, allocsize)
                   /\ StoredCompressed(s)
                   /\ \A i \in (loc[s].dst_size + COMPRESS_SKIP + 1)..Len(Stored(s)) :
                          Stored(s)[i] = 0
                   /\ HdrSize(Stored(s)) = LE32(Len(Stored(s)))
                   /\ HdrMemsize(Stored(s)) = LE32(loc[s].page.size)

\* A page of 150 bytes has been stored uncompressed: three units, the last
\* 42 bytes padding.
C15_Witness ==
    /\ pc[1] = "w_err"
    /\ loc[1].ret = OK
    /\ loc[1].dsk = "buf"
    /\ loc[1].page.size = 150
    /\ Len(Stored(1)) = 3 * allocsize

\* *addrp and *sizep as the last successful write left them.
LastOut ==
    IF Len(wlog) = 0 THEN [addrp |-> NoAddr, sizep |-> 0]
    ELSE [addrp |-> wlog[Len(wlog)].addr, sizep |-> wlog[Len(wlog)].size]

(* C16: a persist failure leaks the extent.  When the allocator has given  *)
(* an address and the file write then fails, the write returns the I/O     *)
(* error, the extent stays allocated, *addrp and *sizep are as they were   *)
(* before the call, the write counters are not incremented and the file is *)
(* unchanged.                                                              *)
C16_PersistFailureLeaks ==
    \A s \in Sessions :
        /\ (pc[s] = "w_ret" /\ loc[s].addr # NoAddr /\ file = pre[s].file) =>
               loc[s].ret = "EIO"
        /\ (pc[s] \in {"w_err", "w_ret"} /\ loc[s].ret = "EIO") =>
               /\ loc[s].addr # NoAddr
               /\ loc[s].asize > 0
               /\ next_addr = loc[s].addr + (loc[s].asize \div allocsize)
               /\ out[s] = LastOut
               /\ out[s].addrp # loc[s].addr
               /\ stats = pre[s].stats
               /\ file = pre[s].file

\* After one successful write, a second write has failed at its file write.
C16_Witness ==
    /\ pc[1] = "w_ret"
    /\ loc[1].ret = "EIO"
    /\ Len(wlog) = 1

(* C17: decompression range.  When a read calls decompress, the scratch    *)
(* buffer has memsize bytes, the source length it passes is the size       *)
(* argument of the read less 32 and the destination length is the header's *)
(* memsize less 32, whatever logical lengths the caller's buffer and the   *)
(* scratch buffer have.                                                    *)
C17_DecompressRange ==
    \A s \in Sessions :
        pc[s] = "r_decomp" =>
            /\ Len(tmp[s].mem) >= Get32(buf[s].mem, OFF_MEMSIZE)
            /\ SrcSize(buf[s], loc[s].rsize) = loc[s].rsize - COMPRESS_SKIP
            /\ DstSize(tmp[s], Get32(buf[s].mem, OFF_MEMSIZE)) =
                   Get32(buf[s].mem, OFF_MEMSIZE) - COMPRESS_SKIP

\* The places of a read.
ReadPcs == { "r_read", "r_cksum", "r_stat", "r_scr", "r_decomp", "r_err", "r_ret" }

(* C18: LSN consumption.  btree->lsn changes only in the increment step of *)
(* a write, by one.  A write that returns success, or the error of the     *)
(* file write, has advanced it by exactly one; a write that fails at       *)
(* scratch acquisition or at the allocator has left it alone; and a read   *)
(* never changes it.                                                       *)
C18_LsnConsumption ==
    /\ [](\A s \in Sessions :
            /\ pc[s] \in ReadPcs => lsn = pre[s].lsn
            /\ (pc[s] \in WritePcs /\ WriteRank(pc[s]) <= WriteRank("w_lsn_incr")) =>
                   lsn = pre[s].lsn
            /\ pc[s] \in {"w_lsn_copy", "w_cksum", "w_write", "w_finish"} =>
                   lsn = pre[s].lsn + 1
            /\ pc[s] \in {"w_err", "w_ret"} =>
                   lsn = pre[s].lsn + (IF loc[s].ret \in {OK, "EIO"} THEN 1 ELSE 0))
    /\ [][lsn' # lsn =>
            /\ lsn' = lsn + 1
            /\ \E s \in Sessions : pc[s] = "w_lsn_incr" /\ pc'[s] = "w_lsn_copy"]_vars

\* Two writes have failed at the file write and no write has succeeded: the
\* lsn is 2.
C18_Witness ==
    /\ pc[1] = "w_ret"
    /\ loc[1].ret = "EIO"
    /\ Len(wlog) = 0
    /\ lsn = 2

\* The caller's buffer after a successful write of the page p with no
\* compressor, when the counter was v - 1 at the call: sizes set, padded,
\* stamped with v and checksummed.
NoCompressorBuf(p, v) ==
    LET a  == WT_ALIGN(p.size, allocsize)
        b0 == PageBuf(p)
        b1 == UncompressedPrep([b0 EXCEPT !.mem = SetSizes(@, b0.size)], a)
    IN  [b1 EXCEPT !.mem = SetChecksum(StampLsn(@, v), a)]

\* The write of session s has done what a write with no compressor does.
AsNoCompressor(s) ==
    LET a == WT_ALIGN(loc[s].page.size, allocsize)
        b == NoCompressorBuf(loc[s].page, pre[s].lsn + 1)
    IN  /\ buf[s] = b
        /\ Stored(s) = SubSeq(b.mem, 1, a)
        /\ file = FilePut(pre[s].file, loc[s].addr, SubSeq(b.mem, 1, a))
        /\ out[s] = [addrp |-> loc[s].addr, sizep |-> a]
        /\ loc[s].asize = a
        /\ next_addr = loc[s].addr + (a \div allocsize)

(* C19: the fallback is equivalent to having no compressor.  A successful  *)
(* write whose compression attempt failed or saved nothing stores the same *)
(* bytes at the address the allocator gave, returns the same address and   *)
(* size and leaves the caller's buffer in the same state as a write of the *)
(* same page with no compressor; the attempt itself does not change the    *)
(* caller's buffer.                                                        *)
C19_FallbackEquivalence ==
    \A s \in Sessions :
        /\ (pc[s] = "w_err" /\ loc[s].ret = OK /\ compressor = "none") => AsNoCompressor(s)
        /\ (pc[s] = "w_err" /\ loc[s].ret = OK /\ loc[s].cret # "" /\ loc[s].dsk = "buf") =>
               AsNoCompressor(s)
        /\ pc[s] \in {"w_scr", "w_compress", "w_adopt"} =>
               buf[s] = [pre[s].buf EXCEPT !.mem = SetSizes(@, pre[s].buf.size)]

\* The run-length compressor has failed on a page of 100 bytes and the
\* write has succeeded.
C19_Witness ==
    /\ compressor = "rle"
    /\ pc[1] = "w_err"
    /\ loc[1].ret = OK
    /\ loc[1].cret = "CODEC_ERROR"
    /\ loc[1].dsk = "buf"

\* The counters st with one more write, and with one more read.
CountWrite(st) == [st EXCEPT !.page_write = @ + 1, !.block_write = @ + 1]
CountRead(st) == [st EXCEPT !.page_read = @ + 1, !.block_read = @ + 1]

(* C20: counter accounting.  A write that returns success has incremented  *)
(* page_write and block_write once each and a failed one has incremented   *)
(* nothing; a read whose checksum comparison passed, whether it then       *)
(* succeeds or fails at scratch acquisition or decompression, has          *)
(* incremented page_read and block_read once each, and a read that failed  *)
(* at the file read or at the comparison has incremented nothing.          *)
C20_CounterAccounting ==
    \A s \in Sessions :
        /\ pc[s] = "w_ret" =>
               stats = IF loc[s].ret = OK THEN CountWrite(pre[s].stats) ELSE pre[s].stats
        /\ pc[s] = "r_ret" =>
               stats = IF loc[s].ret \in {"EIO", "WT_ERROR"}
                       THEN pre[s].stats
                       ELSE CountRead(pre[s].stats)

\* A read that passed the checksum comparison and failed at scratch
\* acquisition has been counted.
C20_Witness ==
    /\ pc[1] = "r_ret"
    /\ loc[1].ret = "ENOMEM"
    /\ stats.page_read = 1
    /\ stats.block_read = 1

====
